---- MODULE Spec2Model ----
(***************************************************************************)
(* Model of graphql_compiler/compiler/ir_lowering_common/common.py: the    *)
(* language-independent IR lowering and optimization passes.  Every pass   *)
(* is a pure function of a list of IR blocks; it is modelled as an         *)
(* operator that runs the loop of the code over the list, and as an action *)
(* that applies the pass to the input list ir_blocks and stores what the   *)
(* call produced (a value, or the AssertionError it raised) in result.     *)
(***************************************************************************)
EXTENDS Integers, Sequences, FiniteSets, TLC

VARIABLES
    ir_blocks,              \* the list of IR blocks handed to a pass
    query_metadata_table,   \* location -> declared type, read by the lowering
    pc,                     \* "start", or the name of the pass that has run
    result                  \* what the pass returned or raised

vars == <<ir_blocks, query_metadata_table, pc, result>>

(***************************************************************************)
(* Bounds of the model.                                                    *)
(***************************************************************************)
MaxLenBlocks == 5
MaxLenFolds == 6
MaxLenOptional == 5
MaxLenLower == 2
MaxCompositions == 2
MaxLenVertex == 2
MaxLenFolded == 6
MaxCompositionsTwice == 3

(***************************************************************************)
(* The data model: locations, expressions and blocks.                      *)
(***************************************************************************)
None == "None"

\* the Python None in a variable that otherwise holds an object
NoneValue == [none |-> TRUE]

Location(query_path, field) == [query_path |-> query_path, field |-> field]

\* Location.get_location_name(): the pair (mark_name, field_name)
get_location_name(location) == <<location.query_path, location.field>>

FoldScopeLocation(base, fold_path) == [base_location |-> base, fold_path |-> fold_path]

NullLiteral == [expr |-> "Literal", value |-> "null"]
TrueLiteral == [expr |-> "Literal", value |-> "true"]
FalseLiteral == [expr |-> "Literal", value |-> "false"]

LocalField(field_name) == [expr |-> "LocalField", field_name |-> field_name]

BinaryComposition(operator, left, right) ==
    [expr |-> "BinaryComposition", operator |-> operator, left |-> left, right |-> right]

ContextField(location, field_type) ==
    [expr |-> "ContextField", location |-> location, field_type |-> field_type]

ContextFieldExistence(location) == [expr |-> "ContextFieldExistence", location |-> location]

OutputContextVertex(location, field_type) ==
    [expr |-> "OutputContextVertex", location |-> location, field_type |-> field_type]

MarkLocation(location) == [block |-> "MarkLocation", location |-> location]
Traverse(edge, optional) == [block |-> "Traverse", edge |-> edge, optional |-> optional]
Recurse(edge) == [block |-> "Recurse", edge |-> edge]
Filter(predicate) == [block |-> "Filter", predicate |-> predicate]
Fold(fold_scope_location) == [block |-> "Fold", fold_scope_location |-> fold_scope_location]
Unfold == [block |-> "Unfold"]
EndOptional == [block |-> "EndOptional"]
ConstructResult(fields) == [block |-> "ConstructResult", fields |-> fields]

\* isinstance(x, cls) for blocks and for expressions
IsBlock(b, cls) == b.block = cls
IsExpr(e, cls) == e.expr = cls

\* Traverse.get_field_name(): the name of the edge field traversed
get_field_name(block) == block.edge

(***************************************************************************)
(* Helpers on sequences.                                                   *)
(***************************************************************************)
SeqsUpTo(S, n) == UNION {[1..k -> S] : k \in 0..n}

Last(s) == s[Len(s)]

Indices(s) == 1..Len(s)

\* the sub-sequence of s at the positions of the set P, in order
RECURSIVE SelectAt(_, _, _)
SelectAt(s, P, i) ==
    IF i > Len(s) THEN <<>>
    ELSE IF i \in P THEN <<s[i]>> \o SelectAt(s, P, i + 1)
    ELSE SelectAt(s, P, i + 1)

Range(s) == {s[i] : i \in DOMAIN s}

(***************************************************************************)
(* merge_consecutive_filter_clauses                                        *)
(***************************************************************************)
\* one iteration of the loop: the new value of new_ir_blocks
merge_step_swapped(new_ir_blocks, block) ==
    LET last_block == Last(new_ir_blocks)
    IN  IF IsBlock(last_block, "Filter") /\ IsBlock(block, "Filter")
        THEN [new_ir_blocks EXCEPT ![Len(new_ir_blocks)] =
                 Filter(BinaryComposition("&&", block.predicate, last_block.predicate))]
        ELSE Append(new_ir_blocks, block)

merge_step(new_ir_blocks, block) ==
    LET last_block == Last(new_ir_blocks)
    IN  IF IsBlock(last_block, "Filter") /\ IsBlock(block, "Filter")
        THEN [new_ir_blocks EXCEPT ![Len(new_ir_blocks)] =
                 Filter(BinaryComposition("&&", last_block.predicate, block.predicate))]
        ELSE Append(new_ir_blocks, block)

RECURSIVE merge_loop(_, _)
merge_loop(new_ir_blocks, rest) ==
    IF rest = <<>> THEN new_ir_blocks
    ELSE merge_loop(merge_step(new_ir_blocks, Head(rest)), Tail(rest))

merge_consecutive_filter_clauses_unsliced(blocks) ==
    IF blocks = <<>> THEN blocks
    ELSE merge_loop(<<blocks[1]>>, blocks)

merge_consecutive_filter_clauses(blocks) ==
    IF blocks = <<>> THEN blocks
    ELSE merge_loop(<<blocks[1]>>, Tail(blocks))

(***************************************************************************)
(* remove_end_optionals                                                    *)
(***************************************************************************)
remove_step_keep_first(new_ir_blocks, block) ==
    IF ~IsBlock(block, "EndOptional") \/ new_ir_blocks = <<>>
    THEN Append(new_ir_blocks, block)
    ELSE new_ir_blocks

remove_step(new_ir_blocks, block) ==
    IF ~IsBlock(block, "EndOptional")
    THEN Append(new_ir_blocks, block)
    ELSE new_ir_blocks

RECURSIVE remove_loop(_, _)
remove_loop(new_ir_blocks, rest) ==
    IF rest = <<>> THEN new_ir_blocks
    ELSE remove_loop(remove_step(new_ir_blocks, Head(rest)), Tail(rest))

remove_end_optionals(blocks) == remove_loop(<<>>, blocks)

(***************************************************************************)
(* extract_folds_from_ir_blocks                                            *)
(***************************************************************************)
\* dict assignment d[key] = value
DictSet(d, key, value) ==
    [k \in (DOMAIN d) \cup {key} |-> IF k = key THEN value ELSE d[k]]

EmptyDict == [k \in {} |-> None]

\* the metadata table of the passes that read none
NoTable == EmptyDict

\* the local variables before the loop
folds_start ==
    [folds |-> EmptyDict,
     remaining_ir_blocks |-> <<>>,
     current_folded_blocks |-> <<>>,
     in_fold_location |-> NoneValue,
     raised |-> None]

\* one iteration of the loop; nothing runs after an AssertionError
folds_step_keep_blocks(st, block) ==
    IF st.raised # None THEN st
    ELSE IF IsBlock(block, "Fold") THEN
        IF st.in_fold_location # NoneValue
        THEN [st EXCEPT !.raised = "in_fold_location was not None at a Fold block"]
        ELSE [st EXCEPT !.in_fold_location = block.fold_scope_location]
    ELSE IF IsBlock(block, "Unfold") THEN
        IF st.in_fold_location = NoneValue
        THEN [st EXCEPT !.raised = "in_fold_location was None at an Unfold block"]
        ELSE [st EXCEPT !.folds = DictSet(st.folds, st.in_fold_location,
                                          st.current_folded_blocks),
                        !.in_fold_location = NoneValue]
    ELSE IF st.in_fold_location # NoneValue
        THEN [st EXCEPT !.current_folded_blocks = Append(st.current_folded_blocks, block)]
        ELSE [st EXCEPT !.remaining_ir_blocks = Append(st.remaining_ir_blocks, block)]

folds_step(st, block) ==
    IF st.raised # None THEN st
    ELSE IF IsBlock(block, "Fold") THEN
        IF st.in_fold_location # NoneValue
        THEN [st EXCEPT !.raised = "in_fold_location was not None at a Fold block"]
        ELSE [st EXCEPT !.in_fold_location = block.fold_scope_location]
    ELSE IF IsBlock(block, "Unfold") THEN
        IF st.in_fold_location = NoneValue
        THEN [st EXCEPT !.raised = "in_fold_location was None at an Unfold block"]
        ELSE [st EXCEPT !.folds = DictSet(st.folds, st.in_fold_location,
                                          st.current_folded_blocks),
                        !.current_folded_blocks = <<>>,
                        !.in_fold_location = NoneValue]
    ELSE IF st.in_fold_location # NoneValue
        THEN [st EXCEPT !.current_folded_blocks = Append(st.current_folded_blocks, block)]
        ELSE [st EXCEPT !.remaining_ir_blocks = Append(st.remaining_ir_blocks, block)]

RECURSIVE folds_loop(_, _)
folds_loop(st, rest) ==
    IF rest = <<>> THEN st
    ELSE folds_loop(folds_step(st, Head(rest)), Tail(rest))

\* the call: the AssertionError raised, or the tuple (folds, remaining_ir_blocks)
extract_folds_from_ir_blocks(blocks) ==
    LET st == folds_loop(folds_start, blocks)
    IN  IF st.raised # None
        THEN [raised |-> "AssertionError", message |-> st.raised]
        ELSE [raised |-> None,
              folds |-> st.folds,
              remaining_ir_blocks |-> st.remaining_ir_blocks]

(***************************************************************************)
(* extract_optional_location_root_info                                     *)
(***************************************************************************)
\* list.pop()
Pop(s) == SubSeq(s, 1, Len(s) - 1)

SetLast(s, v) == [s EXCEPT ![Len(s)] = v]

\* the local variables before the loop
root_info_start ==
    [complex_optional_roots |-> <<>>,
     location_to_optional_roots |-> EmptyDict,
     in_optional_root_locations |-> <<>>,
     encountered_traverse_within_optional |-> <<>>,
     preceding_location |-> NoneValue,
     raised |-> None]

\* the first statement of the loop body: a Traverse or Recurse inside an
\* optional scope marks the innermost scope
root_info_mark_traverse_no_recurse(st, current_block) ==
    IF Len(st.in_optional_root_locations) > 0 /\ IsBlock(current_block, "Traverse")
    THEN [st EXCEPT !.encountered_traverse_within_optional =
                        SetLast(st.encountered_traverse_within_optional, TRUE)]
    ELSE st

root_info_mark_traverse(st, current_block) ==
    IF /\ Len(st.in_optional_root_locations) > 0
       /\ (IsBlock(current_block, "Traverse") \/ IsBlock(current_block, "Recurse"))
    THEN [st EXCEPT !.encountered_traverse_within_optional =
                        SetLast(st.encountered_traverse_within_optional, TRUE)]
    ELSE st

\* the branch of an optional Traverse: the preceding location becomes a root
root_info_open_optional_unchecked(st) ==
    [st EXCEPT !.in_optional_root_locations =
                   Append(st.in_optional_root_locations, st.preceding_location),
               !.encountered_traverse_within_optional =
                   Append(st.encountered_traverse_within_optional, FALSE)]

root_info_open_optional(st) ==
    IF st.preceding_location = NoneValue
    THEN [st EXCEPT !.raised = "No MarkLocation found before an optional Traverse"]
    ELSE [st EXCEPT !.in_optional_root_locations =
                        Append(st.in_optional_root_locations, st.preceding_location),
                    !.encountered_traverse_within_optional =
                        Append(st.encountered_traverse_within_optional, FALSE)]

root_info_end_optional_always_complex(st) ==
    IF Len(st.in_optional_root_locations) = 0
    THEN [st EXCEPT !.raised = "in_optional_root_locations was empty at an EndOptional block"]
    ELSE [st EXCEPT !.complex_optional_roots =
                        Append(st.complex_optional_roots,
                               Last(st.in_optional_root_locations)),
                    !.in_optional_root_locations = Pop(st.in_optional_root_locations),
                    !.encountered_traverse_within_optional =
                        Pop(st.encountered_traverse_within_optional)]

\* the branch of an EndOptional: the innermost scope is recorded and popped
root_info_end_optional(st) ==
    IF Len(st.in_optional_root_locations) = 0
    THEN [st EXCEPT !.raised = "in_optional_root_locations was empty at an EndOptional block"]
    ELSE [st EXCEPT !.complex_optional_roots =
                        IF Last(st.encountered_traverse_within_optional)
                        THEN Append(st.complex_optional_roots,
                                    Last(st.in_optional_root_locations))
                        ELSE st.complex_optional_roots,
                    !.in_optional_root_locations = Pop(st.in_optional_root_locations),
                    !.encountered_traverse_within_optional =
                        Pop(st.encountered_traverse_within_optional)]

\* the branch of a MarkLocation: inside an optional scope the location is
\* mapped to a snapshot of the stack of roots
root_info_mark_location_unconditional(st, current_block) ==
    [st EXCEPT !.preceding_location = current_block.location,
               !.location_to_optional_roots =
                   DictSet(st.location_to_optional_roots, current_block.location,
                           st.in_optional_root_locations)]

root_info_mark_location(st, current_block) ==
    [st EXCEPT !.preceding_location = current_block.location,
               !.location_to_optional_roots =
                   IF Len(st.in_optional_root_locations) # 0
                   THEN DictSet(st.location_to_optional_roots, current_block.location,
                                st.in_optional_root_locations)
                   ELSE st.location_to_optional_roots]

\* the if / elif chain of the loop body
root_info_dispatch(st, current_block) ==
    IF IsBlock(current_block, "Traverse") /\ current_block.optional
    THEN root_info_open_optional(st)
    ELSE IF IsBlock(current_block, "EndOptional")
    THEN root_info_end_optional(st)
    ELSE IF IsBlock(current_block, "MarkLocation")
    THEN root_info_mark_location(st, current_block)
    ELSE st

\* one iteration of the loop; nothing runs after an AssertionError
root_info_step(st, current_block) ==
    IF st.raised # None THEN st
    ELSE root_info_dispatch(root_info_mark_traverse(st, current_block), current_block)

RECURSIVE root_info_loop(_, _)
root_info_loop(st, rest) ==
    IF rest = <<>> THEN st
    ELSE root_info_loop(root_info_step(st, Head(rest)), Tail(rest))

\* the call: the AssertionError raised (by the fold extraction or by the
\* scan), or the tuple (complex_optional_roots, location_to_optional_roots)
extract_optional_location_root_info_over_folded(blocks) ==
    LET st == root_info_loop(root_info_start, blocks)
    IN  IF st.raised # None
        THEN [raised |-> "AssertionError", message |-> st.raised]
        ELSE [raised |-> None,
              complex_optional_roots |-> st.complex_optional_roots,
              location_to_optional_roots |-> st.location_to_optional_roots]

extract_optional_location_root_info(blocks) ==
    LET extracted == extract_folds_from_ir_blocks(blocks)
    IN  IF extracted.raised # None THEN extracted
        ELSE LET st == root_info_loop(root_info_start, extracted.remaining_ir_blocks)
             IN  IF st.raised # None
                 THEN [raised |-> "AssertionError", message |-> st.raised]
                 ELSE [raised |-> None,
                       complex_optional_roots |-> st.complex_optional_roots,
                       location_to_optional_roots |-> st.location_to_optional_roots]

(***************************************************************************)
(* extract_simple_optional_location_info                                   *)
(***************************************************************************)
\* the orders in which a dict with the keys S can be iterated
IterationOrders(S) == {f \in [1..Cardinality(S) -> S] : Range(f) = S}

\* the dict comprehension {root: inner for inner, root in items if root not in
\* complex_optional_roots}, the items taken in the dict's iteration order; a
\* later item replaces an earlier one with the same root
RECURSIVE simple_optional_root_to_inner_location(_, _, _)
simple_optional_root_to_inner_location(complex_roots, location_to_roots, order) ==
    IF order = <<>> THEN EmptyDict
    ELSE LET inner_location == Last(order)
             optional_root_location == Last(location_to_roots[inner_location])
             earlier == simple_optional_root_to_inner_location(
                            complex_roots, location_to_roots, Pop(order))
         IN  IF optional_root_location \notin Range(complex_roots)
             THEN DictSet(earlier, optional_root_location, inner_location)
             ELSE earlier

simple_info_start ==
    [simple_optional_root_info |-> EmptyDict, preceding_location |-> NoneValue]

\* one iteration of the second loop
simple_info_step_field_of_inner(st, current_block, root_to_inner) ==
    IF IsBlock(current_block, "MarkLocation")
    THEN [st EXCEPT !.preceding_location = current_block.location]
    ELSE IF IsBlock(current_block, "Traverse") /\ current_block.optional
    THEN IF st.preceding_location \in DOMAIN root_to_inner
         THEN LET inner_location == root_to_inner[st.preceding_location]
                  inner_location_name == get_location_name(st.preceding_location)[1]
              IN  [st EXCEPT !.simple_optional_root_info =
                      DictSet(st.simple_optional_root_info, st.preceding_location,
                              [inner_location_name |-> inner_location_name,
                               edge_field |-> get_field_name(current_block)])]
         ELSE st
    ELSE st

simple_info_step(st, current_block, root_to_inner) ==
    IF IsBlock(current_block, "MarkLocation")
    THEN [st EXCEPT !.preceding_location = current_block.location]
    ELSE IF IsBlock(current_block, "Traverse") /\ current_block.optional
    THEN IF st.preceding_location \in DOMAIN root_to_inner
         THEN LET inner_location == root_to_inner[st.preceding_location]
                  inner_location_name == get_location_name(inner_location)[1]
              IN  [st EXCEPT !.simple_optional_root_info =
                      DictSet(st.simple_optional_root_info, st.preceding_location,
                              [inner_location_name |-> inner_location_name,
                               edge_field |-> get_field_name(current_block)])]
         ELSE st
    ELSE st

RECURSIVE simple_info_loop(_, _, _)
simple_info_loop(st, rest, root_to_inner) ==
    IF rest = <<>> THEN st
    ELSE simple_info_loop(simple_info_step(st, Head(rest), root_to_inner),
                          Tail(rest), root_to_inner)

\* the call; order is the iteration order of location_to_optional_roots
extract_simple_optional_location_info(blocks, complex_roots, location_to_roots, order) ==
    LET root_to_inner == simple_optional_root_to_inner_location(
                             complex_roots, location_to_roots, order)
        extracted == extract_folds_from_ir_blocks(blocks)
    IN  IF extracted.raised # None THEN extracted
        ELSE [raised |-> None,
              simple_optional_root_info |->
                  simple_info_loop(simple_info_start, extracted.remaining_ir_blocks,
                                   root_to_inner).simple_optional_root_info]

(***************************************************************************)
(* OutputContextVertex: validate and to_match                              *)
(***************************************************************************)
\* a call that returned value / a call that raised
Returned(value) == [raised |-> None, value |-> value]

Raised(exception, message) == [raised |-> exception, message |-> message]

\* ContextField.validate(): a Location with a declared type is representable
ContextField_validate(self) == Returned(None)

\* helpers.validate_safe_string(value): the empty string is not a safe name
validate_safe_string(value) ==
    IF value = "" THEN Raised("GraphQLCompilationError", "Empty strings are not allowed")
    ELSE Returned(None)

\* OutputContextVertex.validate()
validate_unchecked(self) == ContextField_validate(self)

validate(self) ==
    LET super_validate == ContextField_validate(self)
    IN  IF super_validate.raised # None THEN super_validate
        ELSE IF self.location.field # None
        THEN Raised("ValueError", "Expected location at a vertex")
        ELSE Returned(None)

\* OutputContextVertex.to_match()
to_match(self) ==
    LET validated == validate(self)
        mark_name == get_location_name(self.location)[1]
        field_name == get_location_name(self.location)[2]
    IN  IF validated.raised # None THEN validated
        ELSE LET safe == validate_safe_string(mark_name)
             IN  IF safe.raised # None THEN safe
                 ELSE IF field_name # None
                 THEN Raised("AssertionError", "Vertex location has non-None field_name")
                 ELSE Returned(mark_name)

\* OutputContextVertex(location, field_type) as a call: the constructor stores
\* its arguments and validates the new object; the exception, if any, is
\* returned in place of the object
OutputContextVertex__init__(location, field_type) ==
    LET self == OutputContextVertex(location, field_type)
        validated == validate(self)
    IN  IF validated.raised # None THEN validated ELSE self

\* x is an exception on its way up, not an expression or a block
IsRaised(x) == "raised" \in DOMAIN x

(***************************************************************************)
(* lower_context_field_existence: the two expression visitors              *)
(***************************************************************************)
\* query_metadata_table.get_location_info(location).type
location_type_of(table, location) == table[location].type

regular_visitor_fn(expression, table) ==
    IF ~IsExpr(expression, "ContextFieldExistence") THEN expression
    ELSE BinaryComposition(
             "!=",
             ContextField(expression.location, location_type_of(table, expression.location)),
             NullLiteral)

construct_result_visitor_fn(expression, table) ==
    IF ~IsExpr(expression, "ContextFieldExistence") THEN expression
    ELSE LET vertex == OutputContextVertex__init__(
                           expression.location,
                           location_type_of(table, expression.location))
         IN  IF IsRaised(vertex) THEN vertex
             ELSE BinaryComposition("!=", vertex, NullLiteral)

(***************************************************************************)
(* optimize_boolean_expression_comparisons: the expression visitor         *)
(***************************************************************************)
operator_inverses == [op \in {"=", "!="} |-> IF op = "=" THEN "!=" ELSE "="]

\* the tail of visitor_fn, once the composition to negate has been picked
rewrite_inverse_any_operator(expression, expression_to_rewrite) ==
    IF expression_to_rewrite = NoneValue THEN expression
    ELSE BinaryComposition(
             IF expression_to_rewrite.operator = "=" THEN "!=" ELSE "=",
             expression_to_rewrite.left,
             expression_to_rewrite.right)

rewrite_inverse(expression, expression_to_rewrite) ==
    IF expression_to_rewrite = NoneValue THEN expression
    ELSE IF expression_to_rewrite.operator \notin DOMAIN operator_inverses THEN expression
    ELSE BinaryComposition(
             operator_inverses[expression_to_rewrite.operator],
             expression_to_rewrite.left,
             expression_to_rewrite.right)

visitor_fn(expression) ==
    IF ~IsExpr(expression, "BinaryComposition") THEN expression
    ELSE
    LET left_is_binary_composition == IsExpr(expression.left, "BinaryComposition")
        right_is_binary_composition == IsExpr(expression.right, "BinaryComposition")
    IN  IF ~left_is_binary_composition /\ ~right_is_binary_composition THEN expression
        ELSE IF expression.operator \notin {"=", "!="} THEN expression
        ELSE
        LET identity_literal ==
                IF expression.operator = "=" THEN TrueLiteral ELSE FalseLiteral
            inverse_literal ==
                IF expression.operator = "=" THEN FalseLiteral ELSE TrueLiteral
        IN  IF expression.left = identity_literal /\ right_is_binary_composition
            THEN expression.right
            ELSE IF expression.right = identity_literal /\ left_is_binary_composition
            THEN expression.left
            ELSE IF expression.left = inverse_literal /\ right_is_binary_composition
            THEN rewrite_inverse(expression, expression.right)
            ELSE IF expression.right = inverse_literal /\ left_is_binary_composition
            THEN rewrite_inverse(expression, expression.left)
            ELSE rewrite_inverse(expression, NoneValue)

(***************************************************************************)
(* The rewrite capability of blocks and expressions: every expression of a *)
(* block is rewritten bottom-up by the visitor, children first.            *)
(***************************************************************************)
\* a visitor function as a value: its name and the table it closes over
Visitor(name, table) == [name |-> name, table |-> table]

CallVisitor(visitor, expression) ==
    CASE visitor.name = "regular_visitor_fn" ->
            regular_visitor_fn(expression, visitor.table)
      [] visitor.name = "construct_result_visitor_fn" ->
            construct_result_visitor_fn(expression, visitor.table)
      [] visitor.name = "visitor_fn" ->
            visitor_fn(expression)

\* Expression.visit_and_update(visitor)
RECURSIVE visit_and_update(_, _)
visit_and_update(expression, visitor) ==
    IF IsExpr(expression, "BinaryComposition")
    THEN LET new_left == visit_and_update(expression.left, visitor)
             new_right == visit_and_update(expression.right, visitor)
         IN  IF IsRaised(new_left) THEN new_left
             ELSE IF IsRaised(new_right) THEN new_right
             ELSE CallVisitor(visitor,
                      BinaryComposition(expression.operator, new_left, new_right))
    ELSE CallVisitor(visitor, expression)

\* BasicBlock.visit_and_update_expressions(visitor)
visit_and_update_expressions(block, visitor) ==
    IF IsBlock(block, "Filter")
    THEN LET new_predicate == visit_and_update(block.predicate, visitor)
         IN  IF IsRaised(new_predicate) THEN new_predicate ELSE Filter(new_predicate)
    ELSE IF IsBlock(block, "ConstructResult")
    THEN LET new_fields == [name \in DOMAIN block.fields |->
                               visit_and_update(block.fields[name], visitor)]
             failed == {name \in DOMAIN block.fields : IsRaised(new_fields[name])}
         IN  IF failed # {} THEN new_fields[CHOOSE name \in failed : TRUE]
             ELSE ConstructResult(new_fields)
    ELSE block

(***************************************************************************)
(* lower_context_field_existence and optimize_boolean_expression_          *)
(* comparisons: the loops over the blocks                                  *)
(***************************************************************************)
lower_block_regular_everywhere(block, table) ==
    visit_and_update_expressions(block, Visitor("regular_visitor_fn", table))

lower_block(block, table) ==
    IF IsBlock(block, "ConstructResult")
    THEN visit_and_update_expressions(block, Visitor("construct_result_visitor_fn", table))
    ELSE visit_and_update_expressions(block, Visitor("regular_visitor_fn", table))

\* one iteration of the loop; nothing runs after an exception
lower_step(st, block, table) ==
    IF st.raised # None THEN st
    ELSE LET new_block == lower_block(block, table)
         IN  IF IsRaised(new_block)
             THEN [st EXCEPT !.raised = new_block.raised, !.message = new_block.message]
             ELSE [st EXCEPT !.new_ir_blocks = Append(st.new_ir_blocks, new_block)]

RECURSIVE lower_loop(_, _, _)
lower_loop(st, rest, table) ==
    IF rest = <<>> THEN st
    ELSE lower_loop(lower_step(st, Head(rest), table), Tail(rest), table)

\* the call: the exception raised, or the new list of blocks
lower_context_field_existence(blocks, table) ==
    LET st == lower_loop([new_ir_blocks |-> <<>>, raised |-> None, message |-> None],
                         blocks, table)
    IN  IF st.raised # None THEN Raised(st.raised, st.message)
        ELSE [raised |-> None, new_ir_blocks |-> st.new_ir_blocks]

\* the visitor applied to the top expression of each block only
RECURSIVE optimize_boolean_expression_comparisons_top_only(_)
optimize_boolean_expression_comparisons_top_only(blocks) ==
    IF blocks = <<>> THEN <<>>
    ELSE Append(optimize_boolean_expression_comparisons_top_only(Pop(blocks)),
                IF IsBlock(Last(blocks), "Filter")
                THEN Filter(visitor_fn(Last(blocks).predicate))
                ELSE Last(blocks))

RECURSIVE optimize_boolean_expression_comparisons(_)
optimize_boolean_expression_comparisons(blocks) ==
    IF blocks = <<>> THEN <<>>
    ELSE Append(optimize_boolean_expression_comparisons(Pop(blocks)),
                visit_and_update_expressions(Last(blocks), Visitor("visitor_fn", NoTable)))

(***************************************************************************)
(* Inputs of the block-list passes.                                        *)
(***************************************************************************)
LocA == Location("A", None)
LocB == Location("B", None)

PredP == LocalField("p")
PredQ == LocalField("q")
PredR == BinaryComposition("&&", LocalField("r"), LocalField("s"))

BlocksAlphabet ==
    {Filter(PredP), Filter(PredQ), Filter(PredR), MarkLocation(LocA), EndOptional}

(***************************************************************************)
(* The passes over plain block lists: filter merging and EndOptional       *)
(* removal.                                                                *)
(***************************************************************************)
InitBlocks ==
    /\ ir_blocks \in SeqsUpTo(BlocksAlphabet, MaxLenBlocks)
    /\ query_metadata_table = NoTable
    /\ pc = "start"
    /\ result = <<>>

MergeConsecutiveFilterClauses ==
    /\ pc = "start"
    /\ result' = merge_consecutive_filter_clauses(ir_blocks)
    /\ pc' = "merge_consecutive_filter_clauses"
    /\ UNCHANGED <<ir_blocks, query_metadata_table>>

RemoveEndOptionals ==
    /\ pc = "start"
    /\ result' = remove_end_optionals(ir_blocks)
    /\ pc' = "remove_end_optionals"
    /\ UNCHANGED <<ir_blocks, query_metadata_table>>

NextBlocks == MergeConsecutiveFilterClauses \/ RemoveEndOptionals

SpecBlocks == InitBlocks /\ [][NextBlocks]_vars

(***************************************************************************)
(* Filter merging run on a list, then on its own output.                   *)
(***************************************************************************)
\* the list the first call returned is handed to the pass again
MergeConsecutiveFilterClausesAgain ==
    /\ pc = "merge_consecutive_filter_clauses"
    /\ result' = [first |-> result, second |-> merge_consecutive_filter_clauses(result)]
    /\ pc' = "merge_consecutive_filter_clauses_again"
    /\ UNCHANGED <<ir_blocks, query_metadata_table>>

NextMerge == MergeConsecutiveFilterClauses \/ MergeConsecutiveFilterClausesAgain

SpecMerge == InitBlocks /\ [][NextMerge]_vars

FoldF1 == FoldScopeLocation(LocA, "out_e1")
FoldF2 == FoldScopeLocation(LocA, "out_e2")

FoldsAlphabet ==
    {Fold(FoldF1), Fold(FoldF2), Unfold, MarkLocation(LocA), Filter(PredP)}

(***************************************************************************)
(* Fold extraction.                                                        *)
(***************************************************************************)
InitFolds ==
    /\ ir_blocks \in SeqsUpTo(FoldsAlphabet, MaxLenFolds)
    /\ query_metadata_table = NoTable
    /\ pc = "start"
    /\ result = <<>>

ExtractFoldsFromIrBlocks ==
    /\ pc = "start"
    /\ result' = extract_folds_from_ir_blocks(ir_blocks)
    /\ pc' = "extract_folds_from_ir_blocks"
    /\ UNCHANGED <<ir_blocks, query_metadata_table>>

NextFolds == ExtractFoldsFromIrBlocks

SpecFolds == InitFolds /\ [][NextFolds]_vars

LocC == Location("C", None)

OptionalAlphabet ==
    {MarkLocation(LocA), MarkLocation(LocB), MarkLocation(LocC),
     Traverse("out_e1", TRUE), Traverse("out_e2", FALSE), Traverse("out_e3", TRUE),
     Recurse("out_e4"), EndOptional}

(***************************************************************************)
(* Optional-scope analysis: the root analysis, then the classification of  *)
(* the simple roots from its two outputs.                                  *)
(***************************************************************************)
InitOptional ==
    /\ ir_blocks \in SeqsUpTo(OptionalAlphabet, MaxLenOptional)
    /\ query_metadata_table = NoTable
    /\ pc = "start"
    /\ result = <<>>

ExtractOptionalLocationRootInfo ==
    /\ pc = "start"
    /\ result' = extract_optional_location_root_info(ir_blocks)
    /\ pc' = "extract_optional_location_root_info"
    /\ UNCHANGED <<ir_blocks, query_metadata_table>>

ExtractSimpleOptionalLocationInfo ==
    /\ pc = "extract_optional_location_root_info"
    /\ result.raised = None
    /\ \E order \in IterationOrders(DOMAIN result.location_to_optional_roots) :
          result' = [complex_optional_roots |-> result.complex_optional_roots,
                     location_to_optional_roots |-> result.location_to_optional_roots,
                     simple |-> extract_simple_optional_location_info(
                                    ir_blocks, result.complex_optional_roots,
                                    result.location_to_optional_roots, order)]
    /\ pc' = "extract_simple_optional_location_info"
    /\ UNCHANGED <<ir_blocks, query_metadata_table>>

NextOptional == ExtractOptionalLocationRootInfo \/ ExtractSimpleOptionalLocationInfo

SpecOptional == InitOptional /\ [][NextOptional]_vars

(***************************************************************************)
(* Optional-scope analysis of lists that also hold fold scopes.            *)
(***************************************************************************)
FoldedAlphabet ==
    {Fold(FoldF1), Unfold, MarkLocation(LocA), MarkLocation(LocB),
     Traverse("out_e1", TRUE), Recurse("out_e4"), EndOptional}

InitFoldedOptional ==
    /\ ir_blocks \in SeqsUpTo(FoldedAlphabet, MaxLenFolded)
    /\ query_metadata_table = NoTable
    /\ pc = "start"
    /\ result = <<>>

SpecFoldedOptional == InitFoldedOptional /\ [][NextOptional]_vars

(***************************************************************************)
(* The boolean-comparison optimizer: the visitor on one expression, and    *)
(* the pass over a Filter that holds it.                                   *)
(***************************************************************************)
BooleanLeaves == {TrueLiteral, FalseLiteral, NullLiteral, LocalField("x")}

BooleanOperators == {"=", "!=", "&&"}

\* the expressions with exactly n compositions
RECURSIVE ExpressionsOfSize(_, _, _)
ExpressionsOfSize(leaves, operators, n) ==
    IF n = 0 THEN leaves
    ELSE UNION {{BinaryComposition(op, l, r) :
                    op \in operators,
                    l \in ExpressionsOfSize(leaves, operators, k),
                    r \in ExpressionsOfSize(leaves, operators, n - 1 - k)} :
                k \in 0..(n - 1)}

ExpressionsUpTo(leaves, operators, n) ==
    UNION {ExpressionsOfSize(leaves, operators, k) : k \in 0..n}

InitBoolean ==
    /\ ir_blocks \in {<<Filter(e)>> :
                        e \in ExpressionsUpTo(BooleanLeaves, BooleanOperators,
                                              MaxCompositions)}
    /\ query_metadata_table = NoTable
    /\ pc = "start"
    /\ result = <<>>

\* one call of the visitor, on the predicate of the Filter
VisitorFn ==
    /\ pc = "start"
    /\ result' = visitor_fn(ir_blocks[1].predicate)
    /\ pc' = "visitor_fn"
    /\ UNCHANGED <<ir_blocks, query_metadata_table>>

OptimizeBooleanExpressionComparisons ==
    /\ pc = "start"
    /\ result' = optimize_boolean_expression_comparisons(ir_blocks)
    /\ pc' = "optimize_boolean_expression_comparisons"
    /\ UNCHANGED <<ir_blocks, query_metadata_table>>

NextBoolean == VisitorFn \/ OptimizeBooleanExpressionComparisons

SpecBoolean == InitBoolean /\ [][NextBoolean]_vars

(***************************************************************************)
(* The optimizer run on a Filter, then on its own output.  Null and the    *)
(* opaque leaf are the same to the visitor (neither True nor False, not a  *)
(* composition), so one of them stands for both.                           *)
(***************************************************************************)
TwiceLeaves == {TrueLiteral, FalseLiteral, LocalField("x")}

\* the shapes of the binary trees with n compositions
LeafShape == [shape |-> "leaf"]

NodeShape(left, right) == [shape |-> "node", left |-> left, right |-> right]

RECURSIVE ExpressionShapes(_)
ExpressionShapes(n) ==
    IF n = 0 THEN {LeafShape}
    ELSE UNION {{NodeShape(l, r) : l \in ExpressionShapes(k),
                                   r \in ExpressionShapes(n - 1 - k)} :
                k \in 0..(n - 1)}

RECURSIVE ShapeSize(_)
ShapeSize(shape) ==
    IF shape = LeafShape THEN 0
    ELSE 1 + ShapeSize(shape.left) + ShapeSize(shape.right)

\* the expression of the given shape whose operators and leaves, read in
\* prefix order and from left to right, are the two sequences
RECURSIVE ExpressionOfShape(_, _, _)
ExpressionOfShape(shape, operators, leaves) ==
    IF shape = LeafShape THEN leaves[1]
    ELSE LET k == ShapeSize(shape.left)
         IN  BinaryComposition(
                 operators[1],
                 ExpressionOfShape(shape.left, SubSeq(operators, 2, k + 1),
                                   SubSeq(leaves, 1, k + 1)),
                 ExpressionOfShape(shape.right,
                                   SubSeq(operators, k + 2, Len(operators)),
                                   SubSeq(leaves, k + 2, Len(leaves))))

InitTwice ==
    /\ \E n \in 0..MaxCompositionsTwice :
          \E shape \in ExpressionShapes(n) :
              \E operators \in [1..n -> BooleanOperators] :
                  \E leaves \in [1..(n + 1) -> TwiceLeaves] :
                      ir_blocks = <<Filter(ExpressionOfShape(shape, operators, leaves))>>
    /\ query_metadata_table = NoTable
    /\ pc = "start"
    /\ result = <<>>

\* the list the first call returned is handed to the pass again
OptimizeBooleanExpressionComparisonsAgain ==
    /\ pc = "optimize_boolean_expression_comparisons"
    /\ result' = [first |-> result,
                  second |-> optimize_boolean_expression_comparisons(result)]
    /\ pc' = "optimize_boolean_expression_comparisons_again"
    /\ UNCHANGED <<ir_blocks, query_metadata_table>>

NextTwice ==
    OptimizeBooleanExpressionComparisons \/ OptimizeBooleanExpressionComparisonsAgain

SpecTwice == InitTwice /\ [][NextTwice]_vars

(***************************************************************************)
(* The lowering of ContextFieldExistence.                                  *)
(***************************************************************************)
LowerLeaves == {ContextFieldExistence(LocA), ContextFieldExistence(LocB), LocalField("x")}

LowerExpressions ==
    LowerLeaves
        \cup {BinaryComposition("&&", l, r) : l, r \in LowerLeaves}
        \cup {BinaryComposition("||",
                  BinaryComposition("&&", ContextFieldExistence(LocA), LocalField("x")),
                  ContextFieldExistence(LocB))}

LowerAlphabet ==
    {Filter(e) : e \in LowerExpressions}
        \cup {ConstructResult([name \in {"out"} |-> e]) : e \in LowerExpressions}
        \cup {MarkLocation(LocA)}

\* the declared types of the vertices at the locations
LocationInfos ==
    [l \in {LocA, LocB} |-> [type |-> IF l = LocA THEN "Animal" ELSE "Species"]]

InitLower ==
    /\ ir_blocks \in SeqsUpTo(LowerAlphabet, MaxLenLower)
    /\ query_metadata_table = LocationInfos
    /\ pc = "start"
    /\ result = <<>>

LowerContextFieldExistence ==
    /\ pc = "start"
    /\ result' = lower_context_field_existence(ir_blocks, query_metadata_table)
    /\ pc' = "lower_context_field_existence"
    /\ UNCHANGED <<ir_blocks, query_metadata_table>>

NextLower == LowerContextFieldExistence

SpecLower == InitLower /\ [][NextLower]_vars

(***************************************************************************)
(* OutputContextVertex: an object is built over a location of the table,   *)
(* then validated or rendered; and the lowering over blocks whose          *)
(* existence checks may name a location that carries a field.              *)
(***************************************************************************)
\* the location of the field "name" of the vertex at A
LocAName == Location("A", "name")

VertexLeaves == {ContextFieldExistence(LocA), ContextFieldExistence(LocAName), LocalField("x")}

VertexExpressions ==
    VertexLeaves \cup {BinaryComposition("&&", l, r) : l, r \in VertexLeaves}

VertexAlphabet ==
    {Filter(e) : e \in VertexExpressions}
        \cup {ConstructResult([name \in {"out"} |-> e]) : e \in VertexExpressions}
        \cup {MarkLocation(LocA)}

VertexLocationInfos ==
    [l \in {LocA, LocB, LocAName} |->
        [type |-> IF l = LocA THEN "Animal" ELSE IF l = LocB THEN "Species" ELSE "String"]]

InitVertex ==
    /\ ir_blocks \in SeqsUpTo(VertexAlphabet, MaxLenVertex)
    /\ query_metadata_table = VertexLocationInfos
    /\ pc = "start"
    /\ result = <<>>

\* the constructor has stored the location and the type in the new object
NewOutputContextVertex ==
    /\ pc = "start"
    /\ \E location \in DOMAIN query_metadata_table :
          result' = OutputContextVertex(location,
                                        location_type_of(query_metadata_table, location))
    /\ pc' = "OutputContextVertex"
    /\ UNCHANGED <<ir_blocks, query_metadata_table>>

Validate ==
    /\ pc = "OutputContextVertex"
    /\ result' = [self |-> result, outcome |-> validate(result)]
    /\ pc' = "validate"
    /\ UNCHANGED <<ir_blocks, query_metadata_table>>

ToMatch ==
    /\ pc = "OutputContextVertex"
    /\ result' = [self |-> result, outcome |-> to_match(result)]
    /\ pc' = "to_match"
    /\ UNCHANGED <<ir_blocks, query_metadata_table>>

NextVertex == NewOutputContextVertex \/ Validate \/ ToMatch \/ LowerContextFieldExistence

SpecVertex == InitVertex /\ [][NextVertex]_vars

(***************************************************************************)
(* Reference descriptions used by the claims: written over positions of    *)
(* the input list, not by running the loops of the code.                   *)
(***************************************************************************)
IsFilterAt(s, i) == i \in Indices(s) /\ IsBlock(s[i], "Filter")

\* position i starts a maximal run of Filter blocks
RunStart(s, i) == IsFilterAt(s, i) /\ ~IsFilterAt(s, i - 1)

\* the last position of the maximal run of Filter blocks that contains i
RunEnd(s, i) ==
    CHOOSE j \in i..Len(s) : (\A k \in i..j : IsFilterAt(s, k)) /\ ~IsFilterAt(s, j + 1)

\* ((p_i && p_i+1) && ...) && p_j
RECURSIVE LeftConjunction(_, _, _)
LeftConjunction(s, i, j) ==
    IF j = i THEN s[i].predicate
    ELSE BinaryComposition("&&", LeftConjunction(s, i, j - 1), s[j].predicate)

MergedRunAt(s, i) ==
    IF RunStart(s, i) /\ RunEnd(s, i) > i
    THEN Filter(LeftConjunction(s, i, RunEnd(s, i)))
    ELSE s[i]

\* the input with every maximal run of Filters replaced by one Filter
RunsMerged(s) ==
    LET kept == SelectAt([i \in Indices(s) |-> i],
                         {i \in Indices(s) : ~IsFilterAt(s, i) \/ RunStart(s, i)}, 1)
    IN  [k \in Indices(kept) |-> MergedRunAt(s, kept[k])]

NoAdjacentFilters(s) == \A i \in Indices(s) : ~(IsFilterAt(s, i) /\ IsFilterAt(s, i + 1))

WithoutEndOptionals(s) ==
    SelectAt(s, {i \in Indices(s) : ~IsBlock(s[i], "EndOptional")}, 1)

IsBlockAt(s, i, cls) == i \in Indices(s) /\ IsBlock(s[i], cls)

CountIn(s, P, cls) == Cardinality({k \in P : IsBlockAt(s, k, cls)})

\* number of fold scopes open after the first i blocks
FoldDepth(s, i) == CountIn(s, 1..i, "Fold") - CountIn(s, 1..i, "Unfold")

\* Fold and Unfold alternate and pair up: never two scopes open, never an
\* Unfold without an open scope, and no scope left open at the end
WellNestedFolds(s) ==
    /\ \A i \in 0..Len(s) : FoldDepth(s, i) \in {0, 1}
    /\ FoldDepth(s, Len(s)) = 0

FoldPositions(s) == {i \in Indices(s) : IsBlockAt(s, i, "Fold")}

\* the Unfold that closes the Fold at position i of a well-nested list
MatchingUnfold(s, i) ==
    CHOOSE j \in (i + 1)..Len(s) :
        IsBlockAt(s, j, "Unfold") /\ CountIn(s, (i + 1)..(j - 1), "Unfold") = 0

InFoldScope(s, k) == \E i \in FoldPositions(s) : i < k /\ k < MatchingUnfold(s, i)

\* the blocks strictly between the Fold at i and its Unfold
FoldBody(s, i) == SelectAt(s, {k \in Indices(s) : i < k /\ k < MatchingUnfold(s, i)}, 1)

\* the blocks outside every fold scope, markers excluded
OutsideFolds(s) ==
    SelectAt(s, {k \in Indices(s) : /\ ~IsBlockAt(s, k, "Fold")
                                    /\ ~IsBlockAt(s, k, "Unfold")
                                    /\ ~InFoldScope(s, k)}, 1)

FoldLocations(s) == {s[i].fold_scope_location : i \in FoldPositions(s)}

DistinctFoldLocations(s) ==
    \A i, j \in FoldPositions(s) : s[i].fold_scope_location = s[j].fold_scope_location => i = j

\* no later Fold carries the location of the Fold at i
LastFoldOfLocation(s, i) ==
    \A j \in FoldPositions(s) : s[j].fold_scope_location = s[i].fold_scope_location => j <= i

NoFoldMarkers(s) == \A k \in Indices(s) : ~IsBlockAt(s, k, "Fold") /\ ~IsBlockAt(s, k, "Unfold")

\* Fold(loc), folds[loc], Unfold put back into remaining where each fold of
\* the original list s stood (from position i of s and position k of remaining)
RECURSIVE Resplice(_, _, _, _, _)
Resplice(s, i, remaining, k, folds) ==
    IF i > Len(s) THEN SubSeq(remaining, k, Len(remaining))
    ELSE IF IsBlockAt(s, i, "Fold") THEN
        LET loc == s[i].fold_scope_location
        IN  <<Fold(loc)>> \o folds[loc] \o <<Unfold>>
                \o Resplice(s, MatchingUnfold(s, i) + 1, remaining, k, folds)
    ELSE IF k > Len(remaining) THEN <<>>
    ELSE <<remaining[k]>> \o Resplice(s, i + 1, remaining, k + 1, folds)

IsOptionalTraverseAt(s, i) == IsBlockAt(s, i, "Traverse") /\ s[i].optional

OptionalTraverses(s) == {i \in Indices(s) : IsOptionalTraverseAt(s, i)}

IsTraversalAt(s, i) == IsBlockAt(s, i, "Traverse") \/ IsBlockAt(s, i, "Recurse")

MarkPositions(s) == {i \in Indices(s) : IsBlockAt(s, i, "MarkLocation")}

SetMax(S) == CHOOSE x \in S : \A y \in S : y <= x

\* optional Traverses minus EndOptionals among the positions of P
OptionalBalance(s, P) ==
    Cardinality(P \cap OptionalTraverses(s)) - CountIn(s, P, "EndOptional")

\* number of optional scopes open after the first i blocks
OptionalDepth(s, i) == OptionalBalance(s, 1..i)

\* the scan of a fold-free list raises: an EndOptional with no open scope, or
\* an optional Traverse with no MarkLocation before it
ScanRaises(s) ==
    \E i \in Indices(s) :
        \/ IsBlockAt(s, i, "EndOptional") /\ OptionalDepth(s, i - 1) = 0
        \/ IsOptionalTraverseAt(s, i) /\ MarkPositions(s) \cap 1..(i - 1) = {}

\* the most recently marked location before position i
PrecedingLocation(s, i) ==
    LET before == MarkPositions(s) \cap 1..(i - 1)
    IN  IF before = {} THEN NoneValue ELSE s[SetMax(before)].location

\* j holds the EndOptional that closes the optional Traverse at t
Closes(s, t, j) ==
    /\ IsOptionalTraverseAt(s, t)
    /\ t < j
    /\ IsBlockAt(s, j, "EndOptional")
    /\ OptionalBalance(s, (t + 1)..(j - 1)) = 0
    /\ \A k \in (t + 1)..(j - 1) : OptionalBalance(s, (t + 1)..k) >= 0

\* the scope of the optional Traverse at t is still open at position i > t
OpenAt(s, t, i) == t < i /\ ~\E j \in (t + 1)..(i - 1) : Closes(s, t, j)

OpenScopesAt(s, i) == {t \in OptionalTraverses(s) : OpenAt(s, t, i)}

\* the roots of the optional scopes open at position i, outermost first
RootsOpenAt(s, i) ==
    LET opened == SelectAt([t \in Indices(s) |-> t], OpenScopesAt(s, i), 1)
    IN  [k \in Indices(opened) |-> PrecedingLocation(s, opened[k])]

\* the roots of the closed optional scopes that hold a Traverse or a Recurse
ComplexRoots(s) ==
    {PrecedingLocation(s, t) : t \in
        {t \in OptionalTraverses(s) :
            \E j \in Indices(s) :
                /\ Closes(s, t, j)
                /\ \E k \in (t + 1)..(j - 1) : IsTraversalAt(s, k)}}

\* the MarkLocations inside at least one open optional scope
MarksInOptional(s) == {m \in MarkPositions(s) : OpenScopesAt(s, m) # {}}

\* the locations marked directly inside the scope of the optional Traverse at t
MarkedDirectlyInside(s, t) ==
    {s[m].location : m \in {m \in MarksInOptional(s) : SetMax(OpenScopesAt(s, m)) = t}}

SimpleExample ==
    <<MarkLocation(LocA), Traverse("out_e1", TRUE), MarkLocation(LocB), EndOptional>>

ComplexExample ==
    <<MarkLocation(LocA), Traverse("out_e1", TRUE), MarkLocation(LocB),
      Traverse("out_e2", FALSE), EndOptional>>

\* the roots of the optional Traverses, whatever their scopes hold
OptionalRoots(s) == {PrecedingLocation(s, t) : t \in OptionalTraverses(s)}

UniqueMarkedLocations(s) ==
    \A m, n \in MarkPositions(s) : s[m].location = s[n].location => m = n

\* the last MarkLocation of its location among those inside an optional scope
LastMarkInOptional(s, m) ==
    /\ m \in MarksInOptional(s)
    /\ \A n \in MarksInOptional(s) : s[n].location = s[m].location => n <= m

\* the keys of location_to_optional_roots whose innermost root is root
InnerLocationsOf(location_to_optional_roots, root) ==
    {loc \in DOMAIN location_to_optional_roots :
        Last(location_to_optional_roots[loc]) = root}

\* the last optional Traverse whose root is root
LastOptionalTraverseOf(s, root) ==
    SetMax({t \in OptionalTraverses(s) : PrecedingLocation(s, t) = root})

IsComparison(op) == op \in {"=", "!="}

IdentityLiteralOf(op) == IF op = "=" THEN TrueLiteral ELSE FalseLiteral

InverseLiteralOf(op) == IF op = "=" THEN FalseLiteral ELSE TrueLiteral

\* the two ways to read a composition as (literal side, other side)
Sides(e) ==
    {[literal |-> e.left, other |-> e.right], [literal |-> e.right, other |-> e.left]}

OperatorSwapped(e) ==
    BinaryComposition(IF e.operator = "=" THEN "!=" ELSE "=", e.left, e.right)

NotNullX == BinaryComposition("!=", LocalField("x"), NullLiteral)

IsNullX == BinaryComposition("=", LocalField("x"), NullLiteral)

\* the expression with every ContextFieldExistence replaced by its comparison
RECURSIVE Lowered(_, _, _)
Lowered(e, in_construct_result, table) ==
    IF IsExpr(e, "ContextFieldExistence")
    THEN BinaryComposition(
             "!=",
             IF in_construct_result
             THEN OutputContextVertex(e.location, table[e.location].type)
             ELSE ContextField(e.location, table[e.location].type),
             NullLiteral)
    ELSE IF IsExpr(e, "BinaryComposition")
    THEN BinaryComposition(e.operator,
                           Lowered(e.left, in_construct_result, table),
                           Lowered(e.right, in_construct_result, table))
    ELSE e

RECURSIVE ContainsExistence(_)
ContainsExistence(e) ==
    \/ IsExpr(e, "ContextFieldExistence")
    \/ /\ IsExpr(e, "BinaryComposition")
       /\ (ContainsExistence(e.left) \/ ContainsExistence(e.right))

\* the expressions a block holds
ExpressionsOfBlock(b) ==
    IF IsBlock(b, "Filter") THEN {b.predicate}
    ELSE IF IsBlock(b, "ConstructResult") THEN {b.fields[n] : n \in DOMAIN b.fields}
    ELSE {}

LoweredBlock(b, table) ==
    IF IsBlock(b, "Filter") THEN Filter(Lowered(b.predicate, FALSE, table))
    ELSE IF IsBlock(b, "ConstructResult")
    THEN ConstructResult([n \in DOMAIN b.fields |-> Lowered(b.fields[n], TRUE, table)])
    ELSE b

\* the optional Traverses whose root is root
ScopesRootedAt(s, root) == {t \in OptionalTraverses(s) : PrecedingLocation(s, t) = root}

\* the scope of the optional Traverse at t is closed and holds a traversal
HoldsTraversal(s, t) ==
    \E j \in Indices(s) : Closes(s, t, j) /\ \E k \in (t + 1)..(j - 1) : IsTraversalAt(s, k)

\* the locations marked directly inside the scopes that root opens
MarkedDirectlyUnder(s, root) ==
    UNION {MarkedDirectlyInside(s, t) : t \in ScopesRootedAt(s, root)}

\* the expression and all the expressions nested in it
RECURSIVE SubExpressions(_)
SubExpressions(e) ==
    IF IsExpr(e, "BinaryComposition")
    THEN {e} \cup SubExpressions(e.left) \cup SubExpressions(e.right)
    ELSE {e}

CarriesField(location) == location.field # None

\* the expressions of the ConstructResult blocks of s, nested ones included
ConstructResultExpressions(s) ==
    UNION {UNION {SubExpressions(e) : e \in ExpressionsOfBlock(s[i])} :
              i \in {i \in Indices(s) : IsBlock(s[i], "ConstructResult")}}

\* the per-node rule would rewrite the node n
Simplifiable(n) ==
    /\ IsExpr(n, "BinaryComposition")
    /\ IsComparison(n.operator)
    /\ \E sd \in Sides(n) :
          /\ IsExpr(sd.other, "BinaryComposition")
          /\ \/ sd.literal = IdentityLiteralOf(n.operator)
             \/ sd.literal = InverseLiteralOf(n.operator) /\ IsComparison(sd.other.operator)

\* a comparison of the identity literal with a composition whose operator has
\* no inverse: what inverting the operator of (inverse literal op composition)
\* leaves behind
LeftByInversion(n) ==
    /\ IsExpr(n, "BinaryComposition")
    /\ IsComparison(n.operator)
    /\ \E sd \in Sides(n) :
          /\ sd.literal = IdentityLiteralOf(n.operator)
          /\ IsExpr(sd.other, "BinaryComposition")
          /\ ~IsComparison(sd.other.operator)
    /\ ~Simplifiable(OperatorSwapped(n))

AndXX == BinaryComposition("&&", LocalField("x"), LocalField("x"))

(***************************************************************************)
(* Claims.                                                                 *)
(***************************************************************************)

\* C1: merge_consecutive_filter_clauses returns the input with every maximal
\* run of k >= 2 consecutive Filters replaced by one Filter over the
\* left-nested conjunction of the run's predicates in order; every other
\* block is unchanged and in place; the empty list is returned as is; the
\* output never has two adjacent Filters.
C1_MergeRuns ==
    pc = "merge_consecutive_filter_clauses" =>
        /\ result = RunsMerged(ir_blocks)
        /\ NoAdjacentFilters(result)
        /\ (ir_blocks = <<>> => result = <<>>)

\* a run of three Filters next to a non-Filter block has been merged
C1_Witness ==
    /\ pc = "merge_consecutive_filter_clauses"
    /\ \E i \in Indices(ir_blocks) :
          /\ RunStart(ir_blocks, i)
          /\ RunEnd(ir_blocks, i) = i + 2
          /\ i > 1
    /\ \E k \in Indices(result) :
          result[k] = Filter(BinaryComposition("&&",
                          BinaryComposition("&&", PredP, PredR), PredQ))

\* C2: for any well-nested input the call returns (folds, remaining): the
\* keys of folds are the locations of the Fold blocks, folds[loc] is exactly
\* the blocks strictly between Fold(loc) and its Unfold, remaining is exactly
\* the blocks outside every fold scope, neither holds a Fold or an Unfold,
\* and re-splicing Fold(loc), folds[loc], Unfold where each fold stood gives
\* back the input.  Locations are unique in the data model, so each Fold
\* is the only one of its location; the formula also covers lists that
\* repeat a fold location, where folds is a dict and keeps the last fold.
C2_FoldPartition ==
    (pc = "extract_folds_from_ir_blocks" /\ WellNestedFolds(ir_blocks)) =>
        /\ result.raised = None
        /\ DOMAIN result.folds = FoldLocations(ir_blocks)
        /\ \A i \in FoldPositions(ir_blocks) :
              LastFoldOfLocation(ir_blocks, i) =>
                  result.folds[ir_blocks[i].fold_scope_location] = FoldBody(ir_blocks, i)
        /\ result.remaining_ir_blocks = OutsideFolds(ir_blocks)
        /\ NoFoldMarkers(result.remaining_ir_blocks)
        /\ \A loc \in DOMAIN result.folds : NoFoldMarkers(result.folds[loc])
        /\ DistinctFoldLocations(ir_blocks) =>
              Resplice(ir_blocks, 1, result.remaining_ir_blocks, 1, result.folds) = ir_blocks

\* two folds with distinct locations, both with a body, have been cut out
C2_Witness ==
    /\ pc = "extract_folds_from_ir_blocks"
    /\ WellNestedFolds(ir_blocks)
    /\ result.raised = None
    /\ DOMAIN result.folds = {FoldF1, FoldF2}
    /\ result.folds[FoldF1] # <<>>
    /\ result.folds[FoldF2] # <<>>
    /\ result.folds[FoldF1] # result.folds[FoldF2]

\* C9: extract_folds_from_ir_blocks raises on every input whose Fold/Unfold
\* markers are mismatched (a Fold inside an open fold scope, an Unfold with
\* no open fold scope, a Fold never closed by an Unfold) and returns without
\* raising only when the markers are well-nested.
C9_RaisesIffMismatched ==
    pc = "extract_folds_from_ir_blocks" =>
        (result.raised # None <=> ~WellNestedFolds(ir_blocks))

\* C3: when the scan does not raise, a location is in complex_optional_roots
\* if and only if it is the most recently marked location before some
\* optional Traverse whose scope holds a Traverse or Recurse between that
\* Traverse and its closing EndOptional.  MarkLocation(A), Traverse(optional,
\* e1), MarkLocation(B), EndOptional gives the empty set; with an extra
\* Traverse(e2) before the EndOptional it gives {A}.
C3_ComplexRoots ==
    (pc = "extract_optional_location_root_info" /\ result.raised = None) =>
        /\ Range(result.complex_optional_roots) = ComplexRoots(ir_blocks)
        /\ (ir_blocks = SimpleExample => Range(result.complex_optional_roots) = {})
        /\ (ir_blocks = ComplexExample => Range(result.complex_optional_roots) = {LocA})

\* a scope that holds a marked location and is made complex by a Recurse
C3_Witness ==
    /\ pc = "extract_optional_location_root_info"
    /\ result.raised = None
    /\ result.complex_optional_roots = <<LocA>>
    /\ DOMAIN result.location_to_optional_roots = {LocB}
    /\ \E i \in Indices(ir_blocks) : IsBlockAt(ir_blocks, i, "Recurse")
    /\ \A i \in Indices(ir_blocks) :
          IsBlockAt(ir_blocks, i, "Traverse") => ir_blocks[i].optional

\* C10: the scan of extract_optional_location_root_info raises, returning
\* no result, when it reaches an EndOptional while no optional scope is open
\* and when it reaches an optional Traverse before any MarkLocation; in
\* every other case it does not raise.
C10_ScanRaises ==
    pc = "extract_optional_location_root_info" =>
        /\ result.raised # None <=> ScanRaises(ir_blocks)
        /\ result.raised # None => DOMAIN result = {"raised", "message"}

\* the scan raised at an EndOptional that followed a balanced optional scope
C10_Witness ==
    /\ pc = "extract_optional_location_root_info"
    /\ result.raised # None
    /\ result.message = "in_optional_root_locations was empty at an EndOptional block"
    /\ IsBlockAt(ir_blocks, 1, "MarkLocation")
    /\ \E t, j \in Indices(ir_blocks) :
          Closes(ir_blocks, t, j) /\ IsBlockAt(ir_blocks, j + 1, "EndOptional")

\* C4: when the scan does not raise, the keys of
\* location_to_optional_roots are exactly the locations marked while an
\* optional scope is open (a location marked only outside every optional
\* scope is not a key), and each maps to the roots of all optional scopes
\* open at its MarkLocation, outermost first, its length being the optional
\* nesting depth there.  Locations are unique in the data model, so each
\* location has one MarkLocation; the formula also covers lists that mark a
\* location again, where the dict keeps the last mark inside a scope.
C4_LocationMap ==
    (pc = "extract_optional_location_root_info" /\ result.raised = None) =>
        /\ DOMAIN result.location_to_optional_roots =
              {ir_blocks[m].location : m \in MarksInOptional(ir_blocks)}
        /\ \A m \in MarkPositions(ir_blocks) :
              (\A n \in MarkPositions(ir_blocks) :
                    ir_blocks[n].location = ir_blocks[m].location
                        => OptionalDepth(ir_blocks, n) = 0)
                => ir_blocks[m].location \notin DOMAIN result.location_to_optional_roots
        /\ \A m \in MarksInOptional(ir_blocks) :
              LastMarkInOptional(ir_blocks, m) =>
                  /\ result.location_to_optional_roots[ir_blocks[m].location]
                        = RootsOpenAt(ir_blocks, m)
                  /\ Len(result.location_to_optional_roots[ir_blocks[m].location])
                        = OptionalDepth(ir_blocks, m)

\* three distinct locations: one outside, one at nesting depth one, one at
\* depth two
C4_Witness ==
    /\ pc = "extract_optional_location_root_info"
    /\ result.raised = None
    /\ UniqueMarkedLocations(ir_blocks)
    /\ DOMAIN result.location_to_optional_roots = {LocB, LocC}
    /\ result.location_to_optional_roots[LocB] = <<LocA>>
    /\ result.location_to_optional_roots[LocC] = <<LocA, LocB>>

C6_NodeRewrite ==
    pc = "visitor_fn" =>
        LET e == ir_blocks[1].predicate
            identity(sd) ==
                /\ sd.literal = IdentityLiteralOf(e.operator)
                /\ IsExpr(sd.other, "BinaryComposition")
            inverse(sd) ==
                /\ sd.literal = InverseLiteralOf(e.operator)
                /\ IsExpr(sd.other, "BinaryComposition")
                /\ IsComparison(sd.other.operator)
        IN  /\ IF IsExpr(e, "BinaryComposition") /\ IsComparison(e.operator)
               THEN /\ \A sd \in Sides(e) : identity(sd) => result = sd.other
                    /\ \A sd \in Sides(e) : inverse(sd) => result = OperatorSwapped(sd.other)
                    /\ (\A sd \in Sides(e) : ~identity(sd) /\ ~inverse(sd)) => result = e
               ELSE result = e
            /\ (e = BinaryComposition("=", NotNullX, FalseLiteral) => result = IsNullX)
            /\ (e = BinaryComposition("!=", IsNullX, TrueLiteral) => result = NotNullX)

\* the inverse literal on the left: False = (X != Null) has become X = Null
C6_Witness ==
    /\ pc = "visitor_fn"
    /\ ir_blocks[1].predicate = BinaryComposition("=", FalseLiteral, NotNullX)
    /\ result = IsNullX

\* C7: lower_context_field_existence replaces every ContextFieldExistence
\* (location) in every block by BinaryComposition(!=, X, NullLiteral), X being
\* an OutputContextVertex(location, type) inside a ConstructResult and a
\* ContextField(location, type) in any other block, type the declared type
\* the metadata lookup returns for the location; every other expression is
\* unchanged; the output has the same number and order of blocks and holds no
\* ContextFieldExistence anywhere.
C7_ExistenceLowered ==
    pc = "lower_context_field_existence" =>
        /\ result.raised = None
        /\ Len(result.new_ir_blocks) = Len(ir_blocks)
        /\ \A i \in Indices(ir_blocks) :
              result.new_ir_blocks[i] = LoweredBlock(ir_blocks[i], query_metadata_table)
        /\ \A i \in Indices(result.new_ir_blocks) :
              \A e \in ExpressionsOfBlock(result.new_ir_blocks[i]) : ~ContainsExistence(e)

\* a nested existence check lowered inside a ConstructResult, after a Filter
\* whose existence check was lowered to a plain ContextField
C7_Witness ==
    /\ pc = "lower_context_field_existence"
    /\ Len(ir_blocks) = 2
    /\ ir_blocks[1] = Filter(ContextFieldExistence(LocB))
    /\ result.raised = None
    /\ result.new_ir_blocks[1] =
          Filter(BinaryComposition("!=", ContextField(LocB, "Species"), NullLiteral))
    /\ IsBlock(ir_blocks[2], "ConstructResult")
    /\ result.new_ir_blocks[2].fields["out"] =
          BinaryComposition("||",
              BinaryComposition("&&",
                  BinaryComposition("!=", OutputContextVertex(LocA, "Animal"), NullLiteral),
                  LocalField("x")),
              BinaryComposition("!=", OutputContextVertex(LocB, "Species"), NullLiteral))

\* C8: remove_end_optionals returns a new list equal to the input with every
\* EndOptional deleted (length = input length minus the number of
\* EndOptionals, no EndOptional left, the other blocks unchanged and in
\* order), and the input list is not modified by the call.
C8_RemoveEndOptionals ==
    /\ [](pc = "remove_end_optionals" =>
            /\ result = WithoutEndOptionals(ir_blocks)
            /\ Len(result) = Len(ir_blocks)
                  - Cardinality({i \in Indices(ir_blocks) : IsBlock(ir_blocks[i], "EndOptional")})
            /\ \A k \in Indices(result) : ~IsBlock(result[k], "EndOptional"))
    /\ [][pc' = "remove_end_optionals" => ir_blocks' = ir_blocks]_vars

\* EndOptionals at the front, in the middle and at the end have been removed
C8_Witness ==
    /\ pc = "remove_end_optionals"
    /\ Len(ir_blocks) = 5
    /\ ir_blocks[1] = EndOptional /\ ir_blocks[3] = EndOptional /\ ir_blocks[5] = EndOptional
    /\ result = <<ir_blocks[2], ir_blocks[4]>>
    /\ ir_blocks[2] # ir_blocks[4]

\* C11: validate and to_match of an OutputContextVertex whose location carries
\* a field component fail with the validation error (ValueError) and produce
\* no text; for a location with no field component to_match returns exactly
\* the location's mark name; lower_context_field_existence raises that error
\* exactly when a ConstructResult holds an existence check over a
\* field-carrying location, so no list it returns holds an
\* OutputContextVertex over such a location inside a ConstructResult.
C11_VertexValidation ==
    /\ pc = "validate" =>
          (CarriesField(result.self.location) =>
              /\ result.outcome.raised = "ValueError"
              /\ "value" \notin DOMAIN result.outcome)
    /\ pc = "to_match" =>
          IF CarriesField(result.self.location)
          THEN /\ result.outcome.raised = "ValueError"
               /\ "value" \notin DOMAIN result.outcome
          ELSE /\ result.outcome.raised = None
               /\ result.outcome.value = get_location_name(result.self.location)[1]
    /\ pc = "lower_context_field_existence" =>
          /\ result.raised = "ValueError" <=>
                \E e \in ConstructResultExpressions(ir_blocks) :
                    IsExpr(e, "ContextFieldExistence") /\ CarriesField(e.location)
          /\ result.raised \in {None, "ValueError"}
          /\ result.raised = None =>
                \A e \in ConstructResultExpressions(result.new_ir_blocks) :
                    IsExpr(e, "OutputContextVertex") => ~CarriesField(e.location)

\* the lowering failed in a ConstructResult over the field-carrying location,
\* after a Filter in which the same existence check lowers to a ContextField
C11_Witness ==
    /\ pc = "lower_context_field_existence"
    /\ Len(ir_blocks) = 2
    /\ ir_blocks[1] = Filter(ContextFieldExistence(LocAName))
    /\ ir_blocks[2] = ConstructResult([name \in {"out"} |->
                          BinaryComposition("&&", ContextFieldExistence(LocA),
                                            ContextFieldExistence(LocAName))])
    /\ result = Raised("ValueError", "Expected location at a vertex")

C13_FoldsIgnored ==
    LET cut == OutsideFolds(ir_blocks)
        marked_outside == {cut[m].location : m \in MarkPositions(cut)}
    IN  /\ (pc = "extract_optional_location_root_info" /\ WellNestedFolds(ir_blocks)) =>
              /\ result = extract_optional_location_root_info(cut)
              /\ result.raised # None <=> ScanRaises(cut)
              /\ result.raised = None =>
                    /\ Range(result.complex_optional_roots) = ComplexRoots(cut)
                    /\ DOMAIN result.location_to_optional_roots \subseteq marked_outside
                    /\ \A loc \in DOMAIN result.location_to_optional_roots :
                          Range(result.location_to_optional_roots[loc])
                              \subseteq marked_outside
                    /\ Range(result.complex_optional_roots) \subseteq marked_outside
        /\ (pc = "extract_simple_optional_location_info" /\ WellNestedFolds(ir_blocks)) =>
              /\ result.simple.raised = None
              /\ \E order \in IterationOrders(DOMAIN result.location_to_optional_roots) :
                    result.simple = extract_simple_optional_location_info(
                                        cut, result.complex_optional_roots,
                                        result.location_to_optional_roots, order)
              /\ DOMAIN result.simple.simple_optional_root_info \subseteq marked_outside

\* an optional scope that holds only a fold with a Recurse inside: the root
\* A is not complex
C13_Witness ==
    /\ pc = "extract_optional_location_root_info"
    /\ ir_blocks = <<MarkLocation(LocA), Traverse("out_e1", TRUE), Fold(FoldF1),
                     Recurse("out_e4"), Unfold, EndOptional>>
    /\ result = [raised |-> None,
                 complex_optional_roots |-> <<>>,
                 location_to_optional_roots |-> EmptyDict]

\* C14: merge_consecutive_filter_clauses is idempotent, merge(merge(s)) =
\* merge(s) for every list s, and every list with no two adjacent Filters is
\* a fixed point, merge(s) = s.
C14_MergeIdempotent ==
    /\ pc = "merge_consecutive_filter_clauses_again" => result.second = result.first
    /\ (pc = "merge_consecutive_filter_clauses" /\ NoAdjacentFilters(ir_blocks)) =>
          result = ir_blocks

\* the first call merged a run of three Filters between two other blocks,
\* and the second call returned that list as it was
C14_Witness ==
    /\ pc = "merge_consecutive_filter_clauses_again"
    /\ ir_blocks = <<MarkLocation(LocA), Filter(PredP), Filter(PredR), Filter(PredQ),
                     EndOptional>>
    /\ result.first = <<MarkLocation(LocA),
                        Filter(BinaryComposition("&&",
                            BinaryComposition("&&", PredP, PredR), PredQ)),
                        EndOptional>>
    /\ result.second = result.first

\* C15 (as stated): optimize_boolean_expression_comparisons reaches a fixed
\* point in one bottom-up pass: applying the pass to its own output changes
\* nothing, and the output holds no BinaryComposition node that the per-node
\* rule would still simplify, nodes produced by inverting an inner operator
\* included.
C15_Original ==
    /\ pc = "optimize_boolean_expression_comparisons" =>
          \A n \in SubExpressions(result[1].predicate) : ~Simplifiable(n)
    /\ pc = "optimize_boolean_expression_comparisons_again" =>
          result.second = result.first

\* C15 (amended): one bottom-up pass leaves a node the per-node rule would
\* still simplify only where it inverted an operator: every such node of the
\* output compares the identity literal of its operator with a composition
\* whose operator is neither = nor !=, and the same node with the operator
\* swapped is not simplifiable.  A second pass changes the output exactly
\* when it holds such a node, and the output of the second pass holds no
\* node the rule would simplify.  (True != B) = False with B an &&
\* composition becomes True = B, and the second pass makes it B.
C15_FixedPointInTwo ==
    /\ pc = "optimize_boolean_expression_comparisons" =>
          /\ \A n \in SubExpressions(result[1].predicate) :
                Simplifiable(n) => LeftByInversion(n)
          /\ (\A n \in SubExpressions(ir_blocks[1].predicate) : ~Simplifiable(n))
                => result = ir_blocks
    /\ pc = "optimize_boolean_expression_comparisons_again" =>
          /\ result.second # result.first <=>
                \E n \in SubExpressions(result.first[1].predicate) : Simplifiable(n)
          /\ \A n \in SubExpressions(result.second[1].predicate) : ~Simplifiable(n)
          /\ (ir_blocks[1].predicate =
                  BinaryComposition("=", BinaryComposition("!=", TrueLiteral, AndXX),
                                    FalseLiteral))
                => /\ result.first = <<Filter(BinaryComposition("=", TrueLiteral, AndXX))>>
                   /\ result.second = <<Filter(AndXX)>>

\* (True != (x && x)) = False: the first pass inverted the inner operator and
\* the second pass removed the comparison with True it had produced
C15_Witness ==
    /\ pc = "optimize_boolean_expression_comparisons_again"
    /\ ir_blocks = <<Filter(BinaryComposition("=",
                          BinaryComposition("!=", TrueLiteral, AndXX), FalseLiteral))>>
    /\ result.first = <<Filter(BinaryComposition("=", TrueLiteral, AndXX))>>
    /\ result.second = <<Filter(AndXX)>>

====
